---- MODULE Spec2Model ----
(***************************************************************************)
(* The command registry and dispatch of cli/src/commands/mod.rs:           *)
(* the Command enum, default_app (schema construction with help headings), *)
(* run_command (decode + dispatch), renamed_cmd (deprecation wrapper) and  *)
(* the verify_app test.                                                    *)
(***************************************************************************)
EXTENDS Naturals, Sequences, FiniteSets, TLC

VARIABLES
  features,     \* the Cargo features the binary was built with: [git, bench]
  pc,           \* position of the process
  step,         \* index of the next mut_subcommand call of default_app
  app,          \* the clap::Command under construction / built
  selfcheck,    \* outcome of default_app().debug_assert() in verify_app
  argv,         \* <<token, args>> handed to the matching engine
  matches,      \* command_helper.matches()
  subcommand,   \* the Command value decoded by run_command
  outcome,      \* how run_command / the wrapped closure ended
  calls,        \* handler invocations, in order
  ret,          \* value returned by run_command / the wrapped closure
  wrap,         \* the arguments renamed_cmd was called with
  ui,           \* what was written to the Ui, in order
  last,         \* what the latest handler invocation was given and did
  invocations   \* number of invocations of the wrapped closure so far

vars == <<features, pc, step, app, selfcheck, argv, matches, subcommand,
          outcome, calls, ret, wrap, ui, last, invocations>>

-----------------------------------------------------------------------------
(* Bounds of the model. *)

\* distinct argument values a subcommand can be given
MaxArgs == 2
\* distinct error values of the handlers' error domain
MaxErr == 2
\* lines a handler may write to the Ui
MaxOut == 1
\* invocations of one closure returned by renamed_cmd
MaxInvoke == 2

ArgVals == 1..MaxArgs

Ok == <<"Ok">>
HandlerErr(n) == <<"Err", "handler", n>>
IoErr == <<"Err", "io">>
NoValue == <<"none">>

\* Result<(), CommandError> values a handler can return
Results == {Ok} \cup {HandlerErr(n) : n \in 1..MaxErr}

-----------------------------------------------------------------------------
(* Identifiers and the kebab-case renaming clap's derive applies to them.  *)

Upper == {"A","B","C","D","E","F","G","H","I","J","K","L","M",
          "N","O","P","Q","R","S","T","U","V","W","X","Y","Z"}

LowerOf ==
  [c \in Upper |->
     CASE c = "A" -> "a" [] c = "B" -> "b" [] c = "C" -> "c" [] c = "D" -> "d"
       [] c = "E" -> "e" [] c = "F" -> "f" [] c = "G" -> "g" [] c = "H" -> "h"
       [] c = "I" -> "i" [] c = "J" -> "j" [] c = "K" -> "k" [] c = "L" -> "l"
       [] c = "M" -> "m" [] c = "N" -> "n" [] c = "O" -> "o" [] c = "P" -> "p"
       [] c = "Q" -> "q" [] c = "R" -> "r" [] c = "S" -> "s" [] c = "T" -> "t"
       [] c = "U" -> "u" [] c = "V" -> "v" [] c = "W" -> "w" [] c = "X" -> "x"
       [] c = "Y" -> "y" [] c = "Z" -> "z"]

ToLower(c) == IF c \in Upper THEN LowerOf[c] ELSE c

\* the identifier as written in the source
RECURSIVE Str(_)
Str(chars) == IF chars = <<>> THEN "" ELSE Head(chars) \o Str(Tail(chars))

\* a word starts at an upper-case letter that follows a lower-case one, or
\* that ends a run of upper-case letters
WordStart(chars, i) ==
  /\ i > 1
  /\ chars[i] \in Upper
  /\ \/ chars[i - 1] \notin Upper
     \/ i < Len(chars) /\ chars[i + 1] \notin Upper

RECURSIVE KebabFrom(_, _)
KebabFrom(chars, i) ==
  IF i > Len(chars) THEN ""
  ELSE (IF WordStart(chars, i) THEN "-" ELSE "") \o ToLower(chars[i])
         \o KebabFrom(chars, i + 1)

ToKebab(chars) == KebabFrom(chars, 1)

-----------------------------------------------------------------------------
(* enum Command *)

Variant(ident, module, payload, cfg) ==
  [ident |-> ident, module |-> module, payload |-> payload, cfg |-> cfg,
   alias |-> {}, visible_alias |-> {}, hide |-> FALSE]

Arm(cfg, pattern, module, fn) ==
  [cfg |-> cfg, pattern |-> pattern, module |-> module, fn |-> fn]

Call(cfg, name, heading) == [cfg |-> cfg, name |-> name, heading |-> heading]

HELP_HEADING_COMMON_COMMANDS == "Common Commands"
HELP_HEADING_EDITING_CHANGES == "Editing Changes"
HELP_HEADING_REWRITING_CHANGES == "Rewriting Changes"
HELP_HEADING_WORKING_COPY == "Working Copy"
HELP_HEADING_FILE_OPERATIONS == "File Operations"
HELP_HEADING_REVIEW_COMMANDS == "Review Commands"
HELP_HEADING_REFERENCES == "References (Bookmarks & Tags)"
HELP_HEADING_OPERATION_LOG == "Operation Log"
HELP_HEADING_WORKSPACE == "Workspace"
HELP_HEADING_ADVANCED == "Advanced"
HELP_HEADING_CONFIGURATION_HELP == "Configuration & Help"
HELP_HEADING_GIT_INTEGRATION == "Git Integration"
HELP_HEADING_DEVELOPMENT == "Development"

\* the variants of enum Command, in declaration order, with their attributes
CommandEnum ==
  <<
    Variant(<<"A","b","a","n","d","o","n">>, "abandon", "AbandonArgs", "always"),
    Variant(<<"A","b","s","o","r","b">>, "absorb", "AbsorbArgs", "always"),
    Variant(<<"B","e","n","c","h">>, "bench", "BenchCommand", "bench"),
    Variant(<<"B","i","s","e","c","t">>, "bisect", "BisectCommand", "always"),
    Variant(<<"B","o","o","k","m","a","r","k">>, "bookmark", "BookmarkCommand", "always"),
    Variant(<<"C","o","m","m","i","t">>, "commit", "CommitArgs", "always"),
    Variant(<<"C","o","n","f","i","g">>, "config", "ConfigCommand", "always"),
    Variant(<<"D","e","b","u","g">>, "debug", "DebugCommand", "always"),
    Variant(<<"D","e","s","c","r","i","b","e">>, "describe", "DescribeArgs", "always"),
    Variant(<<"D","i","f","f">>, "diff", "DiffArgs", "always"),
    Variant(<<"D","i","f","f","e","d","i","t">>, "diffedit", "DiffeditArgs", "always"),
    Variant(<<"D","u","p","l","i","c","a","t","e">>, "duplicate", "DuplicateArgs", "always"),
    Variant(<<"E","d","i","t">>, "edit", "EditArgs", "always"),
    [Variant(<<"E","v","o","l","o","g">>, "evolog", "EvologArgs", "always")
       EXCEPT !.alias = {"obslog"}, !.visible_alias = {"evolution-log"}],
    Variant(<<"F","i","l","e">>, "file", "FileCommand", "always"),
    Variant(<<"F","i","x">>, "fix", "FixArgs", "always"),
    Variant(<<"G","e","r","r","i","t">>, "gerrit", "GerritCommand", "git"),
    Variant(<<"G","i","t">>, "git", "GitCommand", "git"),
    Variant(<<"H","e","l","p">>, "help", "HelpArgs", "always"),
    Variant(<<"I","n","t","e","r","d","i","f","f">>, "interdiff", "InterdiffArgs", "always"),
    Variant(<<"L","o","g">>, "log", "LogArgs", "always"),
    Variant(<<"M","e","t","a","e","d","i","t">>, "metaedit", "MetaeditArgs", "always"),
    Variant(<<"N","e","w">>, "new", "NewArgs", "always"),
    Variant(<<"N","e","x","t">>, "next", "NextArgs", "always"),
    [Variant(<<"O","p","e","r","a","t","i","o","n">>, "operation", "OperationCommand", "always")
       EXCEPT !.visible_alias = {"op"}],
    Variant(<<"P","a","r","a","l","l","e","l","i","z","e">>, "parallelize", "ParallelizeArgs", "always"),
    Variant(<<"P","r","e","v">>, "prev", "PrevArgs", "always"),
    Variant(<<"R","e","b","a","s","e">>, "rebase", "RebaseArgs", "always"),
    Variant(<<"R","e","d","o">>, "redo", "RedoArgs", "always"),
    Variant(<<"R","e","s","o","l","v","e">>, "resolve", "ResolveArgs", "always"),
    Variant(<<"R","e","s","t","o","r","e">>, "restore", "RestoreArgs", "always"),
    Variant(<<"R","e","v","e","r","t">>, "revert", "RevertArgs", "always"),
    Variant(<<"R","o","o","t">>, "root", "RootArgs", "always"),
    [Variant(<<"R","u","n">>, "run", "RunArgs", "always") EXCEPT !.hide = TRUE],
    Variant(<<"S","h","o","w">>, "show", "ShowArgs", "always"),
    Variant(<<"S","i","g","n">>, "sign", "SignArgs", "always"),
    Variant(<<"S","i","m","p","l","i","f","y","P","a","r","e","n","t","s">>, "simplify_parents", "SimplifyParentsArgs", "always"),
    Variant(<<"S","p","a","r","s","e">>, "sparse", "SparseCommand", "always"),
    Variant(<<"S","p","l","i","t">>, "split", "SplitArgs", "always"),
    Variant(<<"S","q","u","a","s","h">>, "squash", "SquashArgs", "always"),
    Variant(<<"S","t","a","t","u","s">>, "status", "StatusArgs", "always"),
    Variant(<<"T","a","g">>, "tag", "TagCommand", "always"),
    Variant(<<"U","n","d","o">>, "undo", "UndoArgs", "always"),
    Variant(<<"U","n","s","i","g","n">>, "unsign", "UnsignArgs", "always"),
    Variant(<<"U","t","i","l">>, "util", "UtilCommand", "always"),
    Variant(<<"V","e","r","s","i","o","n">>, "version", "VersionArgs", "always"),
    Variant(<<"W","o","r","k","s","p","a","c","e">>, "workspace", "WorkspaceCommand", "always")
  >>

\* the arms of the match in run_command, in order
MatchArms ==
  <<
    Arm("always", "Abandon", "abandon", "cmd_abandon"),
    Arm("always", "Absorb", "absorb", "cmd_absorb"),
    Arm("bench", "Bench", "bench", "cmd_bench"),
    Arm("always", "Bisect", "bisect", "cmd_bisect"),
    Arm("always", "Bookmark", "bookmark", "cmd_bookmark"),
    Arm("always", "Commit", "commit", "cmd_commit"),
    Arm("always", "Config", "config", "cmd_config"),
    Arm("always", "Debug", "debug", "cmd_debug"),
    Arm("always", "Describe", "describe", "cmd_describe"),
    Arm("always", "Diff", "diff", "cmd_diff"),
    Arm("always", "Diffedit", "diffedit", "cmd_diffedit"),
    Arm("always", "Duplicate", "duplicate", "cmd_duplicate"),
    Arm("always", "Edit", "edit", "cmd_edit"),
    Arm("always", "Evolog", "evolog", "cmd_evolog"),
    Arm("always", "File", "file", "cmd_file"),
    Arm("always", "Fix", "fix", "cmd_fix"),
    Arm("git", "Gerrit", "gerrit", "cmd_gerrit"),
    Arm("git", "Git", "git", "cmd_git"),
    Arm("always", "Help", "help", "cmd_help"),
    Arm("always", "Interdiff", "interdiff", "cmd_interdiff"),
    Arm("always", "Log", "log", "cmd_log"),
    Arm("always", "Metaedit", "metaedit", "cmd_metaedit"),
    Arm("always", "New", "new", "cmd_new"),
    Arm("always", "Next", "next", "cmd_next"),
    Arm("always", "Operation", "operation", "cmd_operation"),
    Arm("always", "Parallelize", "parallelize", "cmd_parallelize"),
    Arm("always", "Prev", "prev", "cmd_prev"),
    Arm("always", "Rebase", "rebase", "cmd_rebase"),
    Arm("always", "Redo", "redo", "cmd_redo"),
    Arm("always", "Resolve", "resolve", "cmd_resolve"),
    Arm("always", "Restore", "restore", "cmd_restore"),
    Arm("always", "Revert", "revert", "cmd_revert"),
    Arm("always", "Root", "root", "cmd_root"),
    Arm("always", "Run", "run", "cmd_run"),
    Arm("always", "SimplifyParents", "simplify_parents", "cmd_simplify_parents"),
    Arm("always", "Show", "show", "cmd_show"),
    Arm("always", "Sign", "sign", "cmd_sign"),
    Arm("always", "Sparse", "sparse", "cmd_sparse"),
    Arm("always", "Split", "split", "cmd_split"),
    Arm("always", "Squash", "squash", "cmd_squash"),
    Arm("always", "Status", "status", "cmd_status"),
    Arm("always", "Tag", "tag", "cmd_tag"),
    Arm("always", "Undo", "undo", "cmd_undo"),
    Arm("always", "Unsign", "unsign", "cmd_unsign"),
    Arm("always", "Util", "util", "cmd_util"),
    Arm("always", "Version", "version", "cmd_version"),
    Arm("always", "Workspace", "workspace", "cmd_workspace")
  >>

\* the mut_subcommand calls of default_app, in order
HeadingCalls ==
  <<
    Call("always", "log", HELP_HEADING_COMMON_COMMANDS),
    Call("always", "show", HELP_HEADING_COMMON_COMMANDS),
    Call("always", "status", HELP_HEADING_COMMON_COMMANDS),
    Call("always", "diff", HELP_HEADING_COMMON_COMMANDS),
    Call("always", "commit", HELP_HEADING_COMMON_COMMANDS),
    Call("always", "new", HELP_HEADING_EDITING_CHANGES),
    Call("always", "describe", HELP_HEADING_EDITING_CHANGES),
    Call("always", "edit", HELP_HEADING_EDITING_CHANGES),
    Call("always", "abandon", HELP_HEADING_EDITING_CHANGES),
    Call("always", "duplicate", HELP_HEADING_EDITING_CHANGES),
    Call("always", "restore", HELP_HEADING_EDITING_CHANGES),
    Call("always", "revert", HELP_HEADING_EDITING_CHANGES),
    Call("always", "metaedit", HELP_HEADING_EDITING_CHANGES),
    Call("always", "split", HELP_HEADING_REWRITING_CHANGES),
    Call("always", "squash", HELP_HEADING_REWRITING_CHANGES),
    Call("always", "absorb", HELP_HEADING_REWRITING_CHANGES),
    Call("always", "rebase", HELP_HEADING_REWRITING_CHANGES),
    Call("always", "parallelize", HELP_HEADING_REWRITING_CHANGES),
    Call("always", "simplify-parents", HELP_HEADING_REWRITING_CHANGES),
    Call("always", "next", HELP_HEADING_WORKING_COPY),
    Call("always", "prev", HELP_HEADING_WORKING_COPY),
    Call("always", "diffedit", HELP_HEADING_REWRITING_CHANGES),
    Call("always", "resolve", HELP_HEADING_FILE_OPERATIONS),
    Call("always", "file", HELP_HEADING_FILE_OPERATIONS),
    Call("always", "sparse", HELP_HEADING_FILE_OPERATIONS),
    Call("always", "interdiff", HELP_HEADING_REVIEW_COMMANDS),
    Call("always", "evolog", HELP_HEADING_REVIEW_COMMANDS),
    Call("always", "bookmark", HELP_HEADING_REFERENCES),
    Call("always", "tag", HELP_HEADING_REFERENCES),
    Call("always", "operation", HELP_HEADING_OPERATION_LOG),
    Call("always", "undo", HELP_HEADING_OPERATION_LOG),
    Call("always", "redo", HELP_HEADING_OPERATION_LOG),
    Call("always", "workspace", HELP_HEADING_WORKSPACE),
    Call("always", "root", HELP_HEADING_WORKSPACE),
    Call("always", "bisect", HELP_HEADING_ADVANCED),
    Call("always", "fix", HELP_HEADING_ADVANCED),
    Call("always", "run", HELP_HEADING_ADVANCED),
    Call("always", "sign", HELP_HEADING_ADVANCED),
    Call("always", "unsign", HELP_HEADING_ADVANCED),
    Call("always", "config", HELP_HEADING_CONFIGURATION_HELP),
    Call("always", "version", HELP_HEADING_CONFIGURATION_HELP),
    Call("always", "debug", HELP_HEADING_CONFIGURATION_HELP),
    Call("always", "util", HELP_HEADING_CONFIGURATION_HELP),
    Call("git", "git", HELP_HEADING_GIT_INTEGRATION),
    Call("git", "gerrit", HELP_HEADING_GIT_INTEGRATION),
    Call("bench", "bench", HELP_HEADING_DEVELOPMENT)
  >>

-----------------------------------------------------------------------------
(* Conditional compilation. *)

FeatureSets == [git : BOOLEAN, bench : BOOLEAN]

\* mutant: the git items are left ungated
CfgEnabledUngatedGit(cfg, feats) ==
  \/ cfg = "always"
  \/ cfg = "git"
  \/ cfg = "bench" /\ feats.bench

\* #[cfg(feature = "...")] on an item compiled with the features feats
CfgEnabled(cfg, feats) ==
  \/ cfg = "always"
  \/ cfg = "git" /\ feats.git
  \/ cfg = "bench" /\ feats.bench

CompiledVariants(feats) ==
  SelectSeq(CommandEnum, LAMBDA v : CfgEnabled(v.cfg, feats))

CompiledArms(feats) ==
  SelectSeq(MatchArms, LAMBDA a : CfgEnabled(a.cfg, feats))

CompiledCalls(feats) ==
  SelectSeq(HeadingCalls, LAMBDA c : CfgEnabled(c.cfg, feats))

-----------------------------------------------------------------------------
(* default_app: the schema. *)

NoHeading == "(none)"

\* mutant: a visible alias is declared a second time, as a plain alias
SubcommandOfAliasTwice(v) ==
  [name |-> ToKebab(v.ident),
   aliases |-> v.alias \cup v.visible_alias,
   visible_aliases |-> v.visible_alias,
   hide |-> v.hide,
   heading |-> NoHeading]

\* mutant: the hidden aliases are dropped
SubcommandOfNoHiddenAlias(v) ==
  [name |-> ToKebab(v.ident),
   aliases |-> {},
   visible_aliases |-> v.visible_alias,
   hide |-> v.hide,
   heading |-> NoHeading]

\* the subcommand the derive builds for one variant
SubcommandOf(v) ==
  [name |-> ToKebab(v.ident),
   aliases |-> v.alias,
   visible_aliases |-> v.visible_alias,
   hide |-> v.hide,
   heading |-> NoHeading]

\* Args::command(): the top-level command before any subcommand is added
\* (the global arguments; disable_help_subcommand keeps clap from adding a
\* help subcommand of its own beside Command::Help)
ArgsCommand == [subcommands |-> <<>>, panicked |-> FALSE]

\* Command::augment_subcommands(cmd)
AugmentSubcommands(cmd, feats) ==
  LET vs == CompiledVariants(feats)
  IN  [cmd EXCEPT !.subcommands =
         @ \o [i \in 1..Len(vs) |-> SubcommandOf(vs[i])]]

\* positions of the subcommands called name
Positions(cmd, name) ==
  {i \in 1..Len(cmd.subcommands) : cmd.subcommands[i].name = name}

Min(S) == CHOOSE x \in S : \A y \in S : x <= y

RemoveAt(s, i) == SubSeq(s, 1, i - 1) \o SubSeq(s, i + 1, Len(s))

\* |cmd| cmd.help_heading(heading)
HelpHeading(sub, heading) == [sub EXCEPT !.heading = heading]

\* mutant: one name is spelt as the module is, not as the subcommand is
CallNameSnakeCase(call) ==
  IF call.name = "simplify-parents" THEN "simplify_parents" ELSE call.name

\* the name a mut_subcommand call of default_app passes
CallName(call) == call.name

\* cmd.mut_subcommand(name, |cmd| cmd.help_heading(heading)): the subcommand
\* is taken out, changed and pushed back; an undefined name panics
MutSubcommand(cmd, name, heading) ==
  LET pos == Positions(cmd, name)
  IN  IF pos = {}
      THEN [cmd EXCEPT !.panicked = TRUE]
      ELSE LET idx == Min(pos)
           IN  [cmd EXCEPT !.subcommands =
                  Append(RemoveAt(@, idx), HelpHeading(@[idx], heading))]

\* all names a subcommand answers to
AllNames(sub) == {sub.name} \cup sub.aliases \cup sub.visible_aliases

SchemaNames(cmd) ==
  UNION {AllNames(cmd.subcommands[i]) : i \in 1..Len(cmd.subcommands)}

\* how many names and aliases the subcommands declare, with repetitions
RECURSIVE NameCount(_)
NameCount(subs) ==
  IF subs = <<>> THEN 0
  ELSE 1 + Cardinality(Head(subs).aliases)
         + Cardinality(Head(subs).visible_aliases) + NameCount(Tail(subs))

\* clap's debug_assert: a name or alias declared twice is an assertion failure
DebugAssert(cmd) ==
  IF NameCount(cmd.subcommands) = Cardinality(SchemaNames(cmd))
  THEN "pass" ELSE "panic"

-----------------------------------------------------------------------------
(* The matching engine and the decoding of its result. *)

\* the engine: the token selects the subcommand that answers to it and the
\* match result names that subcommand by its canonical name
GetMatches(cmd, token, a) ==
  LET hit == {i \in 1..Len(cmd.subcommands) :
                token \in AllNames(cmd.subcommands[i])}
  IN  IF hit = {}
      THEN [kind |-> "InvalidSubcommand", name |-> token, args |-> a]
      ELSE [kind |-> "subcommand", name |-> cmd.subcommands[Min(hit)].name,
            args |-> a]

\* Command::from_arg_matches, as derived from the enum
FromArgMatches(m, feats) ==
  LET vs == CompiledVariants(feats)
      hit == {i \in 1..Len(vs) : ToKebab(vs[i].ident) = m.name}
  IN  IF m.kind # "subcommand"
      THEN [ok |-> FALSE, value |-> "MissingSubcommand"]
      ELSE IF hit = {}
      THEN [ok |-> FALSE, value |-> "InvalidSubcommand"]
      ELSE [ok |-> TRUE,
            value |-> [variant |-> Str(vs[Min(hit)].ident),
                       payload |-> vs[Min(hit)].payload,
                       args |-> m.args]]

\* mutant: unwrap_or with a fallback command
UnwrapOrHelp(r) ==
  [panicked |-> FALSE,
   value |-> IF r.ok THEN r.value
             ELSE [variant |-> "Help", payload |-> "HelpArgs", args |-> 0]]

\* Result::unwrap
Unwrap(r) == [panicked |-> ~r.ok, value |-> r.value]

\* mutant: an arm copied from its neighbour keeps the neighbour's call
ArmHandlerCopied(arm) ==
  IF arm.pattern = "Sign" THEN [module |-> "show", fn |-> "cmd_show"]
  ELSE [module |-> arm.module, fn |-> arm.fn]

\* the function an arm calls
ArmHandler(arm) == [module |-> arm.module, fn |-> arm.fn]

\* the arms of the match that take the value, in order
MatchingArms(cmd, feats) ==
  SelectSeq(CompiledArms(feats), LAMBDA a : a.pattern = cmd.variant)

\* a handler invocation: the function and what it is passed
Invocation(handler, a) ==
  [handler |-> handler, ui |-> "ui", command |-> "command_helper", args |-> a]

\* mutant: the handler's error is dropped
MatchValueSwallowed(r) == Ok

\* the value of the match expression is the value of run_command
MatchValue(r) == r

NoCommand == [variant |-> "", payload |-> "", args |-> 0]
NoMatches == [kind |-> "none", name |-> "", args |-> 0]
NoWrap == [old_name |-> "", new_name |-> "", cmd |-> ""]
NoLast == [start |-> 0, ncalls |-> 0, args |-> 0, w1 |-> "", w2 |-> "",
           hres |-> NoValue, nout |-> 0]

\* names a user may type: every name and alias of any build, and one of none
Tokens ==
  UNION {AllNames(SubcommandOf(CommandEnum[i])) : i \in 1..Len(CommandEnum)}
    \cup {"frobnicate"}

-----------------------------------------------------------------------------
(* The process: build the schema, then either self-check it (the test) or  *)
(* match a command line and run the command.                               *)

Init ==
  /\ features \in FeatureSets
  /\ pc = "augment"
  /\ step = 0
  /\ app = ArgsCommand
  /\ selfcheck = "not_run"
  /\ argv = <<>>
  /\ matches = NoMatches
  /\ subcommand = NoCommand
  /\ outcome = "none"
  /\ calls = <<>>
  /\ ret = NoValue
  /\ wrap = NoWrap
  /\ ui = <<>>
  /\ last = NoLast
  /\ invocations = 0

\* default_app, first statement: the derive adds the compiled variants
Augment ==
  /\ pc = "augment"
  /\ app' = AugmentSubcommands(app, features)
  /\ step' = 1
  /\ pc' = "headings"
  /\ UNCHANGED <<features, selfcheck, argv, matches, subcommand, outcome,
                 calls, ret, wrap, ui, last, invocations>>

\* default_app: the next mut_subcommand call of the chain
AssignHeading ==
  /\ pc = "headings"
  /\ LET cs == CompiledCalls(features)
         new == MutSubcommand(app, CallName(cs[step]), cs[step].heading)
     IN  /\ app' = new
         /\ pc' = IF new.panicked THEN "panicked"
                  ELSE IF step = Len(cs) THEN "built" ELSE "headings"
  /\ step' = step + 1
  /\ UNCHANGED <<features, selfcheck, argv, matches, subcommand, outcome,
                 calls, ret, wrap, ui, last, invocations>>

\* tests::verify_app
VerifyApp ==
  /\ pc = "built"
  /\ selfcheck' = DebugAssert(app)
  /\ pc' = "verified"
  /\ UNCHANGED <<features, step, app, argv, matches, subcommand, outcome,
                 calls, ret, wrap, ui, last, invocations>>

\* the engine matches a command line against the schema
ParseArgs ==
  /\ pc = "built"
  /\ \E token \in Tokens, a \in ArgVals :
       /\ argv' = <<token, a>>
       /\ matches' = GetMatches(app, token, a)
  /\ pc' = IF matches'.kind = "subcommand" THEN "matched" ELSE "usage_error"
  /\ UNCHANGED <<features, step, app, selfcheck, subcommand, outcome,
                 calls, ret, wrap, ui, last, invocations>>

\* a caller hands run_command a match result that was not made from this
\* schema: one that names no subcommand, or one this enum does not have
ForeignMatches ==
  /\ pc = "built"
  /\ \E a \in ArgVals :
       \/ matches' = [kind |-> "no_subcommand", name |-> "", args |-> a]
       \/ \E n \in Tokens \ {app.subcommands[i].name :
                                i \in 1..Len(app.subcommands)} :
            matches' = [kind |-> "subcommand", name |-> n, args |-> a]
  /\ pc' = "matched"
  /\ UNCHANGED <<features, step, app, selfcheck, argv, subcommand, outcome,
                 calls, ret, wrap, ui, last, invocations>>

\* run_command; the handler it calls returns r
RunCommand ==
  /\ pc = "matched"
  /\ \E r \in Results :
       LET parsed == Unwrap(FromArgMatches(matches, features))
           arms == MatchingArms(parsed.value, features)
       IN  IF parsed.panicked
           THEN /\ outcome' = "panicked"
                /\ UNCHANGED <<subcommand, calls, ret, last>>
           ELSE /\ subcommand' = parsed.value
                /\ IF arms = <<>>
                   THEN /\ outcome' = "fallthrough"
                        /\ UNCHANGED <<calls, ret, last>>
                   ELSE /\ calls' = Append(calls,
                             Invocation(ArmHandler(arms[1]), parsed.value.args))
                        /\ last' = [NoLast EXCEPT !.args = parsed.value.args,
                                                  !.hres = r]
                        /\ ret' = MatchValue(r)
                        /\ outcome' = "returned"
  /\ pc' = "done"
  /\ UNCHANGED <<features, step, app, selfcheck, argv, matches,
                 wrap, ui, invocations>>

Next ==
  \/ Augment
  \/ AssignHeading
  \/ VerifyApp
  \/ ParseArgs
  \/ ForeignMatches
  \/ RunCommand

Spec == Init /\ [][Next]_vars


-----------------------------------------------------------------------------
(* Properties of the registry and of dispatch, checked under Spec.          *)

Range(seq) == {seq[i] : i \in 1..Len(seq)}

\* the schema is complete: default_app has returned
SchemaBuilt == pc \in {"built", "verified", "matched", "usage_error", "done"}

\* run_command has called a handler and returned
Dispatched == pc = "done" /\ outcome = "returned"

\* the variant of the enum with the identifier given
VariantNamed(id) == CHOOSE v \in Range(CommandEnum) : Str(v.ident) = id

\* the handler that belongs to a variant: cmd_<module> of the module its
\* payload type comes from
OwnHandler(v) == [module |-> v.module, fn |-> "cmd_" \o v.module]

\* C3: under every feature set, every compiled variant is taken by exactly
\* one arm of run_command, that arm calls the variant's own handler, and a
\* run of run_command on a decoded command calls exactly that one handler,
\* with the Ui, the CommandHelper and the decoded arguments, and never falls
\* through.
C3_DispatchTotality ==
  /\ \A v \in Range(CompiledVariants(features)) :
       LET arms == MatchingArms([variant |-> Str(v.ident)], features)
       IN  /\ Len(arms) = 1
           /\ ArmHandler(arms[1]) = OwnHandler(v)
  /\ outcome # "fallthrough"
  /\ Dispatched =>
       /\ Len(calls) = 1
       /\ calls[1] = Invocation(OwnHandler(VariantNamed(subcommand.variant)),
                                subcommand.args)
       /\ subcommand.variant = "Show" =>
            calls[1].handler = [module |-> "show", fn |-> "cmd_show"]
       /\ subcommand.variant = "Sign" =>
            calls[1].handler = [module |-> "sign", fn |-> "cmd_sign"]
       /\ subcommand.variant = "SimplifyParents" =>
            calls[1].handler =
              [module |-> "simplify_parents", fn |-> "cmd_simplify_parents"]

C3_Witness ==
  /\ Dispatched
  /\ ~features.git
  /\ subcommand.variant = "SimplifyParents"
  /\ calls = <<Invocation([module |-> "simplify_parents",
                           fn |-> "cmd_simplify_parents"], 2)>>

\* C4: whatever the handler run_command selects returns, Ok or an error,
\* is what run_command returns.
C4_ResultVerbatim == Dispatched => ret = last.hres

C4_Witness == Dispatched /\ last.hres = HandlerErr(2) /\ ret = HandlerErr(2)

\* the names and aliases of the variants gated by a feature that is off
DisabledNames ==
  (IF features.git THEN {} ELSE {"git", "gerrit"})
    \cup (IF features.bench THEN {} ELSE {"bench"})

DisabledIdents ==
  (IF features.git THEN {} ELSE {"Git", "Gerrit"})
    \cup (IF features.bench THEN {} ELSE {"Bench"})

\* C5: a command whose feature is off has no entry in the schema under any
\* name, hidden or visible, and no variant in the enum, and matching its name
\* gives the error an unknown name gives.
C5_DisabledAbsent ==
  /\ DisabledNames \cap SchemaNames(app) = {}
  /\ \A v \in Range(CommandEnum) :
       (v.cfg = "git" /\ ~features.git) \/ (v.cfg = "bench" /\ ~features.bench)
         => /\ ({ToKebab(v.ident)} \cup v.alias \cup v.visible_alias)
                 \cap SchemaNames(app) = {}
            /\ ToKebab(v.ident) \in DisabledNames
  /\ \A v \in Range(CompiledVariants(features)) :
       Str(v.ident) \notin DisabledIdents
  /\ pc = "built" =>
       \A n \in DisabledNames, a \in ArgVals :
         GetMatches(app, n, a).kind = GetMatches(app, "frobnicate", a).kind
  /\ argv # <<>> /\ argv[1] \in DisabledNames \cup {"frobnicate"} =>
       pc = "usage_error" /\ matches.kind = "InvalidSubcommand"

C5_Witness ==
  /\ ~features.git
  /\ features.bench
  /\ pc = "usage_error"
  /\ argv[1] = "gerrit"

\* what the enum declares: the aliases of each canonical name
DeclaredAliases ==
  [n \in {"evolog", "operation"} |->
     IF n = "evolog" THEN {"obslog", "evolution-log"} ELSE {"op"}]

CanonicalOf(token) ==
  IF token \in DeclaredAliases["evolog"] THEN "evolog"
  ELSE IF token \in DeclaredAliases["operation"] THEN "operation"
  ELSE token

\* C6: a command line given under an alias (obslog or evolution-log for
\* evolog, op for operation) is matched and decoded to the very Command value,
\* arguments included, that the canonical name gives, and the same handler
\* is called.
C6_AliasSameVariant ==
  /\ \A v \in Range(CompiledVariants(features)) :
       v.alias \cup v.visible_alias =
         (IF ToKebab(v.ident) \in DOMAIN DeclaredAliases
          THEN DeclaredAliases[ToKebab(v.ident)] ELSE {})
  /\ pc = "built" =>
       \A n \in DOMAIN DeclaredAliases, a \in ArgVals :
         \A al \in DeclaredAliases[n] :
           LET viaAlias == FromArgMatches(GetMatches(app, al, a), features)
               viaName == FromArgMatches(GetMatches(app, n, a), features)
           IN  viaAlias.ok /\ viaAlias = viaName
  /\ argv # <<>> /\ CanonicalOf(argv[1]) \in DOMAIN DeclaredAliases =>
       /\ matches = [kind |-> "subcommand", name |-> CanonicalOf(argv[1]),
                     args |-> argv[2]]
       /\ pc = "done" =>
            /\ outcome = "returned"
            /\ subcommand.args = argv[2]
            /\ CanonicalOf(argv[1]) = "evolog" =>
                 /\ subcommand.variant = "Evolog"
                 /\ subcommand.payload = "EvologArgs"
                 /\ calls = <<Invocation([module |-> "evolog",
                                          fn |-> "cmd_evolog"], argv[2])>>
            /\ CanonicalOf(argv[1]) = "operation" =>
                 /\ subcommand.variant = "Operation"
                 /\ subcommand.payload = "OperationCommand"
                 /\ calls = <<Invocation([module |-> "operation",
                                          fn |-> "cmd_operation"], argv[2])>>

C6_Witness ==
  /\ Dispatched
  /\ argv = <<"obslog", 2>>
  /\ subcommand = [variant |-> "Evolog", payload |-> "EvologArgs", args |-> 2]

HelpHeadings ==
  {HELP_HEADING_COMMON_COMMANDS, HELP_HEADING_EDITING_CHANGES,
   HELP_HEADING_REWRITING_CHANGES, HELP_HEADING_WORKING_COPY,
   HELP_HEADING_FILE_OPERATIONS, HELP_HEADING_REVIEW_COMMANDS,
   HELP_HEADING_REFERENCES, HELP_HEADING_OPERATION_LOG,
   HELP_HEADING_WORKSPACE, HELP_HEADING_ADVANCED,
   HELP_HEADING_CONFIGURATION_HELP, HELP_HEADING_GIT_INTEGRATION,
   HELP_HEADING_DEVELOPMENT}

\* C7: in the schema default_app returns, every compiled variant has exactly
\* one entry under its canonical name, and that entry carries one of the
\* help headings.
C7_EveryEntryTagged ==
  SchemaBuilt =>
    \A v \in Range(CompiledVariants(features)) :
      LET pos == Positions(app, ToKebab(v.ident))
      IN  /\ Cardinality(pos) = 1
          /\ \A i \in pos : app.subcommands[i].heading \in HelpHeadings

\* the part of C7 the code keeps: one entry per compiled variant, and a
\* heading on every entry but that of help
C7_TaggedButHelp ==
  SchemaBuilt =>
    \A v \in Range(CompiledVariants(features)) :
      LET pos == Positions(app, ToKebab(v.ident))
      IN  /\ Cardinality(pos) = 1
          /\ \A i \in pos :
               app.subcommands[i].heading \in HelpHeadings
                 <=> Str(v.ident) # "Help"

\* C8: a match result that names no subcommand, or one that is not in the
\* schema, makes run_command panic: no handler is called and no value is
\* returned to the caller.
C8_AbsentCommandAborts ==
  pc = "done"
    /\ (matches.kind # "subcommand"
          \/ matches.name \notin {sub.name : sub \in Range(app.subcommands)})
    => /\ outcome = "panicked"
       /\ calls = <<>>
       /\ ret = NoValue
       /\ subcommand = NoCommand

C8_Witness ==
  /\ pc = "done"
  /\ matches.kind = "subcommand"
  /\ matches.name = "frobnicate"
  /\ outcome = "panicked"

\* no name or alias is declared twice among the subcommands given
PairwiseDistinct(subs) ==
  /\ \A i, j \in 1..Len(subs) :
       i # j => AllNames(subs[i]) \cap AllNames(subs[j]) = {}
  /\ \A i \in 1..Len(subs) :
       /\ subs[i].name \notin subs[i].aliases \cup subs[i].visible_aliases
       /\ subs[i].aliases \cap subs[i].visible_aliases = {}

\* the schema with entry j renamed to the name of entry i
Renamed(cmd, i, j) ==
  [cmd EXCEPT !.subcommands[j].name = cmd.subcommands[i].name]

\* the schema with the name of entry i added to entry j as a hidden alias
Aliased(cmd, i, j) ==
  [cmd EXCEPT !.subcommands[j].aliases = @ \cup {cmd.subcommands[i].name}]

\* C9: under every feature set the names and aliases of the schema, hidden
\* ones included, are pairwise distinct, so the self-check of verify_app
\* passes; on the same schema with a name or an alias repeated it panics; and
\* the test parses nothing.
C9_NamesDistinct ==
  /\ PairwiseDistinct(app.subcommands)
  /\ {"obslog", "run"} \subseteq SchemaNames(app) \/ pc = "augment"
  /\ pc = "verified" =>
       /\ selfcheck = "pass"
       /\ argv = <<>> /\ matches = NoMatches /\ calls = <<>>
       /\ \A i, j \in 1..Len(app.subcommands) :
            i # j => /\ DebugAssert(Renamed(app, i, j)) = "panic"
                     /\ DebugAssert(Aliased(app, i, j)) = "panic"

C9_Witness ==
  /\ pc = "verified"
  /\ selfcheck = "pass"
  /\ features.git /\ features.bench
  /\ Len(app.subcommands) = Len(CommandEnum)

\* the subcommands as the derive made them, whatever heading they got since
Untagged(subs) == {[sub EXCEPT !.heading = NoHeading] : sub \in Range(subs)}

\* C10: every name default_app passes to mut_subcommand is the canonical
\* name of a variant compiled under the same features, and no name is passed
\* twice; so no call panics or adds an entry, and at every step the entries
\* are those derived from the enum, changed in nothing but their heading.
C10_HeadingFrame ==
  LET cs == CompiledCalls(features)
      vs == CompiledVariants(features)
      passed == {CallName(c) : c \in Range(cs)}
      derived == {[name |-> ToKebab(v.ident), aliases |-> v.alias,
                   visible_aliases |-> v.visible_alias, hide |-> v.hide,
                   heading |-> NoHeading] : v \in Range(vs)}
  IN  /\ passed \subseteq {d.name : d \in derived}
      /\ Cardinality(passed) = Len(cs)
      /\ pc # "panicked" /\ ~app.panicked
      /\ pc # "augment" =>
           /\ Len(app.subcommands) = Len(vs)
           /\ SchemaNames(app) =
                UNION {{d.name} \cup d.aliases \cup d.visible_aliases :
                         d \in derived}
           /\ Untagged(app.subcommands) = derived

C10_Witness ==
  /\ pc = "built"
  /\ features.git /\ features.bench
  /\ step = Len(HeadingCalls) + 1
  /\ \E i \in 1..Len(app.subcommands) :
       /\ app.subcommands[i].name = "bench"
       /\ app.subcommands[i].heading = HELP_HEADING_DEVELOPMENT

-----------------------------------------------------------------------------
(* renamed_cmd: a deprecated command name kept as a wrapper of the new one. *)

OldNames == {"status", "old"}
NewNames == {"show", "new"}
WrappedCmds == {"h1", "h2"}

\* a writeln! to the Ui either goes through or fails with an io::Error
WriteOutcomes == {"ok", "fail"}

\* the two messages (their backquotes are written as quotes here)
DeprecatedWarning(old_name, new_name) ==
  "'jj " \o old_name \o "' is deprecated; use 'jj " \o new_name
    \o "' instead, which is equivalent"

RemovalWarning(old_name) ==
  "'jj " \o old_name
    \o "' will be removed in a future version, and this will be a hard error"

\* a line written through ui.warning_default()
WarningLine(text) == [channel |-> "warning", by |-> "renamed_cmd", text |-> text]

\* the n lines the wrapped command writes while it runs
CmdOutput(cmd, n) ==
  [k \in 1..n |-> [channel |-> "output", by |-> cmd, text |-> "line"]]

\* the closure renamed_cmd returns, called with args a on the Ui log and the
\* call log given; w1 and w2 are the outcomes of its two writes, and the
\* wrapped command writes n lines and returns r
RenamedClosure(w, uiLog, callLog, a, w1, w2, r, n) ==
  IF w1 = "fail"
  THEN [ui |-> uiLog, calls |-> callLog, ret |-> IoErr]
  ELSE LET ui1 == Append(uiLog,
                         WarningLine(DeprecatedWarning(w.old_name, w.new_name)))
       IN  IF w2 = "fail"
           THEN [ui |-> ui1, calls |-> callLog, ret |-> IoErr]
           ELSE LET ui2 == Append(ui1, WarningLine(RemovalWarning(w.old_name)))
                IN  [ui |-> ui2 \o CmdOutput(w.cmd, n),
                     calls |-> Append(callLog, Invocation(w.cmd, a)),
                     ret |-> r]

InitRenamed ==
  /\ features = [git |-> TRUE, bench |-> FALSE]
  /\ pc = "wrapped"
  /\ step = 0
  /\ app = ArgsCommand
  /\ selfcheck = "not_run"
  /\ argv = <<>>
  /\ matches = NoMatches
  /\ subcommand = NoCommand
  /\ outcome = "none"
  /\ calls = <<>>
  /\ ret = NoValue
  /\ wrap \in [old_name : OldNames, new_name : NewNames, cmd : WrappedCmds]
  /\ ui = <<>>
  /\ last = NoLast
  /\ invocations = 0

\* one call of the closure
InvokeRenamed ==
  /\ pc \in {"wrapped", "returned"}
  /\ invocations < MaxInvoke
  /\ \E a \in ArgVals, w1 \in WriteOutcomes, w2 \in WriteOutcomes,
        r \in Results, n \in 0..MaxOut :
       LET res == RenamedClosure(wrap, ui, calls, a, w1, w2, r, n)
       IN  /\ ui' = res.ui
           /\ calls' = res.calls
           /\ ret' = res.ret
           /\ last' = [start |-> Len(ui), ncalls |-> Len(calls), args |-> a,
                       w1 |-> w1, w2 |-> w2, hres |-> r, nout |-> n]
  /\ invocations' = invocations + 1
  /\ pc' = "returned"
  /\ outcome' = "returned"
  /\ UNCHANGED <<features, step, app, selfcheck, argv, matches, subcommand,
                 wrap>>

NextRenamed == InvokeRenamed

SpecRenamed == InitRenamed /\ [][NextRenamed]_vars

-----------------------------------------------------------------------------
(* Properties of the deprecation wrapper, checked under SpecRenamed.        *)

\* what the latest call of the closure wrote, and the handler calls it made
Written == SubSeq(ui, last.start + 1, Len(ui))
Called == SubSeq(calls, last.ncalls + 1, Len(calls))

\* C1: a call of the closure writes the deprecation warning naming both
\* names, then the removal warning, and only then calls the wrapped command,
\* once, with the same Ui, CommandHelper and arguments; all output of the
\* wrapped command follows the two warnings, and the closure returns what the
\* wrapped command returned.
C1_WarningsThenHandler ==
  invocations > 0 =>
    /\ Written =
         << [channel |-> "warning", by |-> "renamed_cmd",
             text |-> "'jj " \o wrap.old_name \o "' is deprecated; use 'jj "
                        \o wrap.new_name \o "' instead, which is equivalent"],
            [channel |-> "warning", by |-> "renamed_cmd",
             text |-> "'jj " \o wrap.old_name \o "' will be removed in a "
                        \o "future version, and this will be a hard error"] >>
           \o [k \in 1..last.nout |->
                 [channel |-> "output", by |-> wrap.cmd, text |-> "line"]]
    /\ Called = << [handler |-> wrap.cmd, ui |-> "ui",
                    command |-> "command_helper", args |-> last.args] >>
    /\ ret = last.hres

\* the part of C1 the code keeps: when both writes go through
C1_WhenWritesSucceed ==
  invocations > 0 /\ last.w1 = "ok" /\ last.w2 = "ok" =>
    /\ Len(Written) = 2 + last.nout
    /\ \A k \in 1..Len(Written) : Written[k].channel = "warning" <=> k <= 2
    /\ Called = <<Invocation(wrap.cmd, last.args)>>
    /\ ret = last.hres

\* C2: the warnings are advisory: whether or not the writes of the warnings
\* go through, the wrapped command is called exactly once and its result is
\* the result of the call.
C2_WarningsAdvisory ==
  invocations > 0 =>
    /\ Len(calls) = last.ncalls + 1
    /\ ret = last.hres

\* what the code does when a write fails: the io error is returned and the
\* wrapped command is not called
C2_WriteFailureReturned ==
  invocations > 0 /\ (last.w1 = "fail" \/ last.w2 = "fail") =>
    /\ Called = <<>>
    /\ ret = IoErr
    /\ Len(Written) = IF last.w1 = "fail" THEN 0 ELSE 1

====
